---- MODULE Spec2Model ----
(***************************************************************************)
(* when3meet: the availability grid (AvailabilityGrid.tsx), the event page *)
(* that feeds it (EventPage.tsx), the persisted tables (supabase           *)
(* migration), the time-suggestion ranker (SuggestedTimes.tsx), the        *)
(* heatmap (HeatmapGrid.tsx) and the form that creates an event            *)
(* (Index.tsx).                                                            *)
(*                                                                         *)
(* Representation.                                                         *)
(*  - A calendar date string "YYYY-MM-DD" is its day number (an integer);  *)
(*    a time-of-day string "HH:MM:SS" is the tuple <<hh, mm, ss>>.         *)
(*  - A JavaScript Date built from a date string is an instant in hours    *)
(*    (UTC); one built from "2000-01-01T<time>" is in seconds of that      *)
(*    local day.                                                           *)
(*  - An availability row is [participant_id, date, time, status]; the     *)
(*    page and the store hold one event, so event_id is left out.          *)
(*  - Real numbers are fixed point: a value v stands for v / SCALE.  Roots *)
(*    are truncated to that precision; they are computed exactly, over     *)
(*    naturals of arbitrary size (digit sequences), because SCALE^n does   *)
(*    not fit a machine integer.                                           *)
(***************************************************************************)
EXTENDS Integers, Sequences, FiniteSets, TLC

VARIABLES
    zone,               \* the browser's time-zone rule (environment)
    event,              \* EventPage: event
    participants,       \* EventPage: participants (ids)
    availability,       \* EventPage: availability (snapshot rows)
    selectedParticipant,\* EventPage: selectedParticipant
    userAvailability,   \* AvailabilityGrid: userAvailability (Map key -> status)
    renderedAvailability,\* the userAvailability the rendered handlers closed over
    isDragging,         \* AvailabilityGrid: isDragging
    dragStatus,         \* AvailabilityGrid: dragStatus
    store,              \* public.availability: the persisted rows
    writes,             \* upserts issued and not yet answered
    notices,            \* change notifications not yet handled by the page
    refreshes,          \* loadAvailability responses read and not yet arrived
    lastOp,             \* the handler or step that ran last (observation only)
    route,              \* the page the router shows: "index" or "event"
    formData,           \* Index: formData (the date and time fields)
    events,             \* public.events: the persisted rows
    loading,            \* EventPage: loading
    people,             \* public.participants: the persisted rows (ids)
    peopleNotices,      \* change notifications on participants not yet handled
    peopleRefreshes     \* loadParticipants responses read and not yet arrived

pageVars == <<event, participants, availability, selectedParticipant>>
gridVars == <<userAvailability, renderedAvailability, isDragging, dragStatus>>
netVars  == <<store, writes, notices, refreshes>>
siteVars == <<route, formData, events>>
loadVars == <<loading, people, peopleNotices, peopleRefreshes>>
vars     == <<zone, pageVars, gridVars, netVars, lastOp, siteVars, loadVars>>

---------------------------------------------------------------------------
(* Universe of the model *)

Pids == {"p1", "p2", "p3"}
NumPids == Cardinality(Pids)

Statuses == {"unavailable", "works", "preferred"}

T0900 == <<9, 0, 0>>
T0930 == <<9, 30, 0>>
T1000 == <<10, 0, 0>>

NoDst       == [at |-> 0,  shift |-> 0]
SpringAhead == [at |-> 12, shift |-> 1]    \* clocks go forward during day 0
FallBack    == [at |-> 12, shift |-> -1]   \* clocks go back during day 0
Zones == {NoDst, SpringAhead, FallBack}

\* One date, 09:00 to 10:00; two dates, 09:00 to 09:30.
EventC5      == [start_date |-> 0, end_date |-> 0, start_time |-> T0900, end_time |-> T1000]
EventTwoDays == [start_date |-> 0, end_date |-> 1, start_time |-> T0900, end_time |-> T0930]

Min(a, b) == IF a < b THEN a ELSE b

---------------------------------------------------------------------------
(* Exact naturals as little-endian digit sequences, and fixed-point roots *)

SCALE == 1000 * 1000
BASE  == 100 * 100

RECURSIVE Carry(_, _)
Carry(s, c) ==
    IF s = <<>>
    THEN IF c = 0 THEN <<>> ELSE <<c % BASE>> \o Carry(<<>>, c \div BASE)
    ELSE LET v == Head(s) + c
         IN  <<v % BASE>> \o Carry(Tail(s), v \div BASE)

RECURSIVE Trim(_)
Trim(s) ==
    IF s # <<>> /\ s[Len(s)] = 0 THEN Trim(SubSeq(s, 1, Len(s) - 1)) ELSE s

Big(n) == Trim(Carry(<<n>>, 0))

RECURSIVE ColSum(_, _, _, _)
ColSum(a, b, k, i) ==
    IF i > Len(a) THEN 0
    ELSE (IF k - i + 1 >= 1 /\ k - i + 1 <= Len(b) THEN a[i] * b[k - i + 1] ELSE 0)
         + ColSum(a, b, k, i + 1)

BigMul(a, b) ==
    IF a = <<>> \/ b = <<>> THEN <<>>
    ELSE Trim(Carry([k \in 1..(Len(a) + Len(b) - 1) |-> ColSum(a, b, k, 1)], 0))

RECURSIVE BigPow(_, _)
BigPow(a, n) == IF n = 0 THEN <<1>> ELSE BigMul(a, BigPow(a, n - 1))

RECURSIVE BigLeqAt(_, _, _)
BigLeqAt(a, b, i) ==
    IF i = 0 THEN TRUE
    ELSE IF a[i] # b[i] THEN a[i] < b[i]
    ELSE BigLeqAt(a, b, i - 1)

BigLeq(a, b) ==
    IF Len(a) # Len(b) THEN Len(a) < Len(b) ELSE BigLeqAt(a, b, Len(a))

\* The largest r in lo..hi-1 with r^n <= target, given lo^n <= target < hi^n.
RECURSIVE Bisect(_, _, _, _)
Bisect(lo, hi, n, target) ==
    IF hi - lo <= 1 THEN lo
    ELSE LET mid == (lo + hi) \div 2
         IN  IF BigLeq(BigPow(Big(mid), n), target)
             THEN Bisect(mid, hi, n, target)
             ELSE Bisect(lo, mid, n, target)

\* floor(SCALE * x^(1/n)) for naturals x and n >= 1.
IRoot(x, n) ==
    Bisect(0, x * SCALE + 1, n, BigMul(Big(x), BigPow(Big(SCALE), n)))

RECURSIVE Pow2(_)
Pow2(p) == IF p = 0 THEN 1 ELSE 2 * Pow2(p - 1)

\* The arguments the ranker can pass for NumPids participants: products of
\* utilities (powers of two) under any root, and n^2 * variance under a
\* square root.
RootDomain ==
    ({Pow2(p) : p \in 0..NumPids} \X (1..NumPids))
        \cup ((0..(NumPids * NumPids)) \X {2})

\* The table of the roots, computed once.
RECURSIVE RootTable(_)
RootTable(S) ==
    IF S = {} THEN << >>
    ELSE LET xn == CHOOSE xn \in S : TRUE
         IN  (xn :> IRoot(xn[1], xn[2])) @@ RootTable(S \ {xn})

RootFix == RootTable(RootDomain)

\* Math.pow(x, 1 / n) and Math.sqrt(x), in fixed point.
MathPowInv(x, n) == RootFix[<<x, n>>]
MathSqrt(x) == RootFix[<<x, 2>>]

---------------------------------------------------------------------------
(* The slot lattice: SuggestedTimes.tsx generateTimeSlots / generateDates *)

SLOT_MINUTES == 30

\* new Date(`2000-01-01T${time}`): seconds into that local day.
ParseTime(t) == t[1] * 3600 + t[2] * 60 + t[3]

\* toTimeString().slice(0, 8)
ToTimeString(sec) == <<(sec \div 3600) % 24, (sec \div 60) % 60, sec % 60>>

\* Variant: the walk takes the end time in (start <= end).
RECURSIVE TimeLoopClosed(_, _)
TimeLoopClosed(start, end) ==
    IF start <= end
    THEN <<ToTimeString(start)>> \o TimeLoopClosed(start + SLOT_MINUTES * 60, end)
    ELSE <<>>

RECURSIVE TimeLoop(_, _)
TimeLoop(start, end) ==
    IF start < end
    THEN <<ToTimeString(start)>> \o TimeLoop(start + SLOT_MINUTES * 60, end)
    ELSE <<>>

\* Variant: only the slots that end within the range are produced.
generateWholeTimeSlots(ev) ==
    TimeLoop(ParseTime(ev.start_time), ParseTime(ev.end_time) - SLOT_MINUTES * 60 + 1)

generateTimeSlots(ev) == TimeLoop(ParseTime(ev.start_time), ParseTime(ev.end_time))

\* new Date("YYYY-MM-DD") is midnight UTC of that day, in hours.
ParseDate(d) == 24 * d

\* toISOString().split('T')[0]: the UTC calendar day of the instant.
ToISODate(h) == h \div 24

\* Hours the local clock is ahead of its offset at the start of the range.
UtcOffset(h, z) == IF z.shift # 0 /\ h >= z.at THEN z.shift ELSE 0

\* start.setDate(start.getDate() + 1): one calendar day later on the LOCAL
\* clock, read back as an instant.
SetDatePlusOne(h, z) ==
    LET wall == h + UtcOffset(h, z) + 24
        same == wall - UtcOffset(h, z)
    IN  wall - UtcOffset(same, z)

RECURSIVE DateLoop(_, _, _)
DateLoop(start, end, z) ==
    IF start <= end
    THEN <<ToISODate(start)>> \o DateLoop(SetDatePlusOne(start, z), end, z)
    ELSE <<>>

generateDates(ev, z) == DateLoop(ParseDate(ev.start_date), ParseDate(ev.end_date), z)

\* The (date, time) pairs in the order dates.forEach / timeSlots.forEach visit them.
Lattice(ev, z) ==
    LET dates == generateDates(ev, z)
        times == generateTimeSlots(ev)
        n     == Len(times)
    IN  [i \in 1..(Len(dates) * n) |->
            <<dates[((i - 1) \div n) + 1], times[((i - 1) % n) + 1]>>]

SeqRange(s) == {s[i] : i \in DOMAIN s}

---------------------------------------------------------------------------
(* The ranker: SuggestedTimes.tsx *)

UTILITY_WEIGHTS == [preferred |-> 2, works |-> 1, unavailable |-> 0]

\* RANKING_WEIGHTS in hundredths (0.4, 0.3, 0.15, 0.1, 0.05).
RANKING_WEIGHTS ==
    [socialWelfare |-> 40, nashProduct |-> 30, egalitarian |-> 15,
     fairness |-> 10, paretoRank |-> 5]

TOP_SUGGESTIONS == 5

RECURSIVE SumOver(_, _)
SumOver(f, S) ==
    IF S = {} THEN 0
    ELSE LET x == CHOOSE x \in S : TRUE IN f[x] + SumOver(f, S \ {x})

RECURSIVE ProductOver(_, _)
ProductOver(f, S) ==
    IF S = {} THEN 1
    ELSE LET x == CHOOSE x \in S : TRUE IN f[x] * ProductOver(f, S \ {x})

\* utilities.filter(u => u > 0), as the participants that pass the filter.
Positive(utilities) == {p \in DOMAIN utilities : utilities[p] > 0}

\* Variant: an unavailable row is not told apart from a works row.
calculateUtilitiesOfAnyRow(parts, avail, date, time) ==
    [p \in parts |->
        LET found == {a \in avail :
                        a.participant_id = p /\ a.date = date /\ a.time = time}
        IN  IF found = {} THEN UTILITY_WEIGHTS.unavailable
            ELSE LET a == CHOOSE a \in found : TRUE
                 IN  IF a.status = "preferred" THEN UTILITY_WEIGHTS.preferred
                     ELSE UTILITY_WEIGHTS.works]

calculateUtilities(parts, avail, date, time) ==
    [p \in parts |->
        LET found == {a \in avail :
                        a.participant_id = p /\ a.date = date /\ a.time = time}
        IN  IF found = {} THEN UTILITY_WEIGHTS.unavailable
            ELSE LET a == CHOOSE a \in found : TRUE
                 IN  IF a.status = "unavailable" THEN UTILITY_WEIGHTS.unavailable
                     ELSE IF a.status = "preferred" THEN UTILITY_WEIGHTS.preferred
                     ELSE UTILITY_WEIGHTS.works]

calculateSocialWelfare(utilities) == SumOver(utilities, DOMAIN utilities)

calculateNashProduct(utilities) ==
    IF Positive(utilities) = {} THEN 0
    ELSE ProductOver(utilities, Positive(utilities))

\* Variant: the best-off participant instead of the worst-off one.
calculateEgalitarianOfBestOff(utilities) ==
    IF Positive(utilities) = {} THEN 0
    ELSE CHOOSE m \in {utilities[p] : p \in Positive(utilities)} :
            \A p \in Positive(utilities) : m >= utilities[p]

calculateEgalitarian(utilities) ==
    IF Positive(utilities) = {} THEN 0
    ELSE CHOOSE m \in {utilities[p] : p \in Positive(utilities)} :
            \A p \in Positive(utilities) : m <= utilities[p]

\* 1 - stdDev / mean over the positive utilities, in fixed point.  With n
\* values of sum s and sum of squares q, mean = s / n and variance =
\* (n*q - s*s) / n^2, so stdDev / mean = sqrt(n*q - s*s) / s.
calculateFairness(utilities) ==
    LET A == Positive(utilities)
        n == Cardinality(A)
        s == SumOver(utilities, A)
        q == SumOver([p \in A |-> utilities[p] * utilities[p]], A)
    IN  IF n = 0 THEN 0
        ELSE IF s > 0 THEN SCALE - (MathSqrt(n * q - s * s) \div s)
        ELSE 0

\* Variant: strictlyBetter is not looked at (no component worse is enough).
isParetoDominatedWeakly(utilities1, utilities2) ==
    \A i \in DOMAIN utilities1 : ~(utilities1[i] < utilities2[i])

isParetoDominated(utilities1, utilities2) ==
    /\ \A i \in DOMAIN utilities1 : ~(utilities1[i] < utilities2[i])
    /\ \E i \in DOMAIN utilities1 : utilities1[i] > utilities2[i]

\* Variant: the slots that dominate this one are counted.
calculateParetoRankOfDominators(utilities, allUtilities) ==
    Cardinality({k \in DOMAIN allUtilities :
                    isParetoDominated(allUtilities[k], utilities)})

calculateParetoRank(utilities, allUtilities) ==
    Cardinality({k \in DOMAIN allUtilities :
                    isParetoDominated(utilities, allUtilities[k])})

\* First pass: the Map from `${date}-${time}` to the utilities of the slots
\* where somebody has a positive utility.
AllUtilities(ev, z, parts, avail) ==
    LET keys == {k \in SeqRange(Lattice(ev, z)) :
                    Positive(calculateUtilities(parts, avail, k[1], k[2])) # {}}
    IN  [k \in keys |-> calculateUtilities(parts, avail, k[1], k[2])]

\* Second pass, one slot: the record pushed for (date, time).
SlotMetrics(parts, avail, allUtilities, date, time) ==
    LET utilities        == allUtilities[<<date, time>>]
        slotAvailability == {a \in avail : a.date = date /\ a.time = time}
        preferredCount   == Cardinality({a \in slotAvailability : a.status = "preferred"})
        worksCount       == Cardinality({a \in slotAvailability : a.status = "works"})
        availableCount   == preferredCount + worksCount
        socialWelfare    == calculateSocialWelfare(utilities)
        nashProduct      == calculateNashProduct(utilities)
    IN  [date           |-> date,
         time           |-> time,
         availableCount |-> availableCount,
         preferredCount |-> preferredCount,
         worksCount     |-> worksCount,
         percentage     |-> (availableCount * 100 * SCALE) \div Cardinality(parts),
         socialWelfare  |-> socialWelfare,
         utilitarian    |-> (socialWelfare * SCALE) \div Cardinality(parts),
         egalitarian    |-> calculateEgalitarian(utilities),
         nashProduct    |-> IF availableCount > 0
                            THEN MathPowInv(nashProduct, availableCount)
                            ELSE 0,
         paretoRank     |-> calculateParetoRank(utilities, allUtilities),
         fairnessScore  |-> calculateFairness(utilities)]

\* The composite score, in units of 1 / (100 * SCALE).
\* Variant: the welfare term is the per-participant mean (utilitarian).
CompositeScoreOfUtilitarian(s) ==
    RANKING_WEIGHTS.socialWelfare * s.utilitarian
    + RANKING_WEIGHTS.nashProduct * s.nashProduct * 10
    + RANKING_WEIGHTS.egalitarian * s.egalitarian * SCALE * 5
    + RANKING_WEIGHTS.fairness * s.fairnessScore * 10
    - RANKING_WEIGHTS.paretoRank * s.paretoRank * SCALE

CompositeScore(s) ==
    RANKING_WEIGHTS.socialWelfare * s.socialWelfare * SCALE
    + RANKING_WEIGHTS.nashProduct * s.nashProduct * 10
    + RANKING_WEIGHTS.egalitarian * s.egalitarian * SCALE * 5
    + RANKING_WEIGHTS.fairness * s.fairnessScore * 10
    - RANKING_WEIGHTS.paretoRank * s.paretoRank * SCALE

\* { ...s, compositeScore }
WithCompositeScore(s) ==
    [date           |-> s.date,
     time           |-> s.time,
     availableCount |-> s.availableCount,
     preferredCount |-> s.preferredCount,
     worksCount     |-> s.worksCount,
     percentage     |-> s.percentage,
     socialWelfare  |-> s.socialWelfare,
     utilitarian    |-> s.utilitarian,
     egalitarian    |-> s.egalitarian,
     nashProduct    |-> s.nashProduct,
     paretoRank     |-> s.paretoRank,
     fairnessScore  |-> s.fairnessScore,
     compositeScore |-> CompositeScore(s)]

\* Second pass over the slots in `visited`: one scored record per slot.
RECURSIVE ScoreEach(_, _, _, _)
ScoreEach(parts, avail, allUtilities, visited) ==
    IF visited = <<>> THEN <<>>
    ELSE <<WithCompositeScore(
              SlotMetrics(parts, avail, allUtilities, visited[1][1], visited[1][2]))>>
         \o ScoreEach(parts, avail, allUtilities, Tail(visited))

\* The suggestions array before .sort(): one scored record per visit of a
\* slot that is in the Map, in the order of the second pass.
ScoredSlots(ev, z, parts, avail) ==
    LET allUtilities == AllUtilities(ev, z, parts, avail)
        InMap(k)     == k \in DOMAIN allUtilities
    IN  ScoreEach(parts, avail, allUtilities, SelectSeq(Lattice(ev, z), InMap))

\* Array.prototype.sort((a, b) => b.compositeScore - a.compositeScore) is
\* stable: an element goes after every element that does not score less.
\* Variant: an element goes before the elements of equal score.
InsertByScoreBeforeEquals(sorted, x) ==
    LET k == Cardinality({i \in DOMAIN sorted :
                            sorted[i].compositeScore > x.compositeScore})
    IN  SubSeq(sorted, 1, k) \o <<x>> \o SubSeq(sorted, k + 1, Len(sorted))

InsertByScore(sorted, x) ==
    LET k == Cardinality({i \in DOMAIN sorted :
                            sorted[i].compositeScore >= x.compositeScore})
    IN  SubSeq(sorted, 1, k) \o <<x>> \o SubSeq(sorted, k + 1, Len(sorted))

RECURSIVE SortByScore(_)
SortByScore(s) ==
    IF s = <<>> THEN <<>>
    ELSE InsertByScore(SortByScore(SubSeq(s, 1, Len(s) - 1)), s[Len(s)])

\* Variant: the participants are taken from the rows when the list is empty.
calculateSuggestionsFromRows(ev, z, parts, avail) ==
    LET voters == IF parts = {} THEN {a.participant_id : a \in avail} ELSE parts
    IN  IF Cardinality(voters) = 0 THEN <<>>
        ELSE LET sorted == SortByScore(ScoredSlots(ev, z, voters, avail))
             IN  SubSeq(sorted, 1, Min(TOP_SUGGESTIONS, Len(sorted)))

calculateSuggestions(ev, z, parts, avail) ==
    IF Cardinality(parts) = 0 THEN <<>>
    ELSE LET sorted == SortByScore(ScoredSlots(ev, z, parts, avail))
         IN  SubSeq(sorted, 1, Min(TOP_SUGGESTIONS, Len(sorted)))

\* const suggestions = calculateSuggestions(): what the page shows.
suggestions == calculateSuggestions(event, zone, participants, availability)

---------------------------------------------------------------------------
(* The heatmap: HeatmapGrid.tsx *)

\* getSlotAvailability: the rows of the slot with status works or preferred.
getSlotAvailability(avail, date, time) ==
    Cardinality({a \in avail : /\ a.date = date
                               /\ a.time = time
                               /\ (a.status = "works" \/ a.status = "preferred")})

\* getHeatmapColor.  percentage < j/5 is compared exactly: availableCount /
\* totalParticipants is below j/5 iff 5 * availableCount < j * totalParticipants
\* (a quotient that is exactly j/5 rounds to the double of the literal).
getHeatmapColor(totalParticipants, availableCount) ==
    IF totalParticipants = 0 \/ availableCount = 0 THEN "bg-muted/50"
    ELSE IF 5 * availableCount < 1 * totalParticipants THEN "bg-green-200"
    ELSE IF 5 * availableCount < 2 * totalParticipants THEN "bg-green-300"
    ELSE IF 5 * availableCount < 3 * totalParticipants THEN "bg-green-400"
    ELSE IF 5 * availableCount < 4 * totalParticipants THEN "bg-green-500"
    ELSE "bg-green-600"

\* The class of the cell (date, time) of the heatmap.
HeatmapCell(parts, avail, date, time) ==
    getHeatmapColor(Cardinality(parts), getSlotAvailability(avail, date, time))

---------------------------------------------------------------------------
(* The persisted table: upsert on (participant_id, date, time) *)

Row(p, d, t, st) == [participant_id |-> p, date |-> d, time |-> t, status |-> st]

SameKey(a, b) ==
    a.participant_id = b.participant_id /\ a.date = b.date /\ a.time = b.time

\* Variant: a plain INSERT, which the UNIQUE constraint rejects on conflict.
InsertOrReject(rows, r) ==
    IF \E a \in rows : SameKey(a, r) THEN rows ELSE rows \cup {r}

\* INSERT ... ON CONFLICT (participant_id, date, time) DO UPDATE
Upsert(rows, r) == {a \in rows : ~SameKey(a, r)} \cup {r}

---------------------------------------------------------------------------
(* The grid: AvailabilityGrid.tsx *)

\* Map.get(key): "undefined" when the Map has no entry.
MapGet(m, key) == IF key \in DOMAIN m THEN m[key] ELSE "undefined"

\* new Map(m).set(key, status)
MapSet(m, key, status) ==
    [k \in (DOMAIN m) \cup {key} |-> IF k = key THEN status ELSE m[k]]

getSlotKey(date, time) == <<date, time>>

\* Variant: a two-state toggle that never reaches "unavailable".
cycleStatusToggle(current) ==
    IF current = "works" THEN "preferred" ELSE "works"

cycleStatus(current) ==
    IF current = "undefined" \/ current = "unavailable" THEN "works"
    ELSE IF current = "works" THEN "preferred"
    ELSE "unavailable"

\* useEffect([availability, participantId]): the Map built from the snapshot.
SnapshotMap(avail, participantId) ==
    LET participantAvail == {a \in avail : a.participant_id = participantId}
    IN  [k \in {getSlotKey(a.date, a.time) : a \in participantAvail} |->
            (CHOOSE a \in participantAvail : getSlotKey(a.date, a.time) = k).status]

\* handleSlotUpdate, synchronous part: the Map handed to setUserAvailability.
\* The handler copies the userAvailability of the render it was created in.
LocalUpdate(closureMap, date, time, status) ==
    MapSet(closureMap, getSlotKey(date, time), status)

\* handleSlotUpdate, asynchronous part: the row handed to upsert().
UpsertRequest(participantId, date, time, status) ==
    Row(participantId, date, time, status)

\* The cells the grid renders: dates x timeSlots.
GridSlots == SeqRange(Lattice(event, zone))

MaxWrites    == 1
MaxNotices   == 1
MaxRefreshes == 1

GridMounted == selectedParticipant # "none"

\* onMouseDown of the cell (date, time).  mousedown is a discrete event:
\* React commits the re-render before the next event is dispatched.
handleMouseDown(date, time) ==
    LET currentStatus == MapGet(renderedAvailability, getSlotKey(date, time))
        newStatus     == cycleStatus(currentStatus)
    IN  /\ GridMounted
        /\ <<date, time>> \in GridSlots
        /\ Cardinality(writes \cup {UpsertRequest(selectedParticipant, date, time, newStatus)})
              <= MaxWrites
        /\ dragStatus' = newStatus
        /\ isDragging' = TRUE
        /\ userAvailability' = LocalUpdate(renderedAvailability, date, time, newStatus)
        /\ writes' = writes \cup {UpsertRequest(selectedParticipant, date, time, newStatus)}
        /\ renderedAvailability' = userAvailability'
        /\ lastOp' = "mouseDown"
        /\ UNCHANGED <<siteVars, loadVars, zone, pageVars, store, notices, refreshes>>

\* Variant: entering a cell paints whether or not a gesture is under way.
handleMouseEnterAlwaysPaints(date, time) ==
    /\ GridMounted
    /\ <<date, time>> \in GridSlots
    /\ Cardinality(writes \cup {UpsertRequest(selectedParticipant, date, time, dragStatus)})
          <= MaxWrites
    /\ userAvailability' = LocalUpdate(renderedAvailability, date, time, dragStatus)
    /\ writes' = writes \cup {UpsertRequest(selectedParticipant, date, time, dragStatus)}
    /\ lastOp' = "mouseEnter"
    /\ UNCHANGED <<siteVars, loadVars, zone, pageVars, renderedAvailability, isDragging, dragStatus,
                   store, notices, refreshes>>

\* onMouseEnter of the cell (date, time).  The state update is queued; the
\* re-render that lets later handlers see it is the step Render.
handleMouseEnter(date, time) ==
    /\ GridMounted
    /\ <<date, time>> \in GridSlots
    /\ IF isDragging
       THEN /\ Cardinality(writes \cup {UpsertRequest(selectedParticipant, date, time, dragStatus)})
                  <= MaxWrites
            /\ userAvailability' = LocalUpdate(renderedAvailability, date, time, dragStatus)
            /\ writes' = writes \cup {UpsertRequest(selectedParticipant, date, time, dragStatus)}
       ELSE UNCHANGED <<userAvailability, writes>>
    /\ lastOp' = "mouseEnter"
    /\ UNCHANGED <<siteVars, loadVars, zone, pageVars, renderedAvailability, isDragging, dragStatus,
                   store, notices, refreshes>>

\* document "mouseup" listener.  The re-render it causes is committed at once
\* (the later handlers see isDragging = false); a queued update of
\* userAvailability still waits for the step Render.
handleMouseUp ==
    /\ GridMounted
    /\ isDragging' = FALSE
    /\ lastOp' = "mouseUp"
    /\ UNCHANGED <<siteVars, loadVars, zone, pageVars, userAvailability, renderedAvailability,
                   dragStatus, netVars>>

\* React commits a pending re-render of the grid.
Render ==
    /\ renderedAvailability # userAvailability
    /\ renderedAvailability' = userAvailability
    /\ lastOp' = "render"
    /\ UNCHANGED <<siteVars, loadVars, zone, pageVars, userAvailability, isDragging, dragStatus, netVars>>

\* The upsert of handleSlotUpdate (or of another client) reaches the table.
\* Every change of the table is published to the page's channel.
WriteArrives(w) ==
    /\ w \in writes
    /\ notices < MaxNotices
    /\ store' = Upsert(store, w)
    /\ writes' = writes \ {w}
    /\ notices' = notices + 1
    /\ lastOp' = IF w \in store THEN "writeSame"
                 ELSE IF \E a \in store : SameKey(a, w) THEN "writeReplace"
                 ELSE "writeInsert"
    /\ UNCHANGED <<siteVars, loadVars, zone, pageVars, gridVars, refreshes>>

\* Variant: a failed upsert puts the grid back to the last snapshot.
WriteFailsAndRollsBack(w) ==
    /\ w \in writes
    /\ writes' = writes \ {w}
    /\ userAvailability' = SnapshotMap(availability, selectedParticipant)
    /\ renderedAvailability' = userAvailability'
    /\ lastOp' = "writeFails"
    /\ UNCHANGED <<siteVars, loadVars, zone, pageVars, isDragging, dragStatus, store, notices, refreshes>>

\* The upsert fails (network, server): supabase-js resolves with an error
\* that handleSlotUpdate does not look at.
WriteFails(w) ==
    /\ w \in writes
    /\ writes' = writes \ {w}
    /\ lastOp' = "writeFails"
    /\ UNCHANGED <<siteVars, loadVars, zone, pageVars, gridVars, store, notices, refreshes>>

\* Another client (another participant, or this one in a second tab) issues
\* an upsert.
RemoteWrite(p, date, time, status) ==
    /\ UpsertRequest(p, date, time, status) \notin writes
    /\ Cardinality(writes) < MaxWrites
    /\ writes' = writes \cup {UpsertRequest(p, date, time, status)}
    /\ lastOp' = "remoteWrite"
    /\ UNCHANGED <<siteVars, loadVars, zone, pageVars, gridVars, store, notices, refreshes>>

\* postgres_changes handler on availability: loadAvailability() selects the
\* event's rows; the response holds the table as it is read.
LoadAvailabilityUpTo(inFlight) ==
    /\ notices > 0
    /\ Cardinality(refreshes \cup {store}) <= inFlight
    /\ notices' = notices - 1
    /\ refreshes' = refreshes \cup {store}
    /\ lastOp' = "loadAvailability"
    /\ UNCHANGED <<siteVars, loadVars, zone, pageVars, gridVars, store, writes>>

loadAvailability == LoadAvailabilityUpTo(MaxRefreshes)

\* Variant: the grid's effect does not run, the local map stays as it is.
RefreshArrivesKeepsLocalMap(data) ==
    /\ data \in refreshes
    /\ refreshes' = refreshes \ {data}
    /\ availability' = data
    /\ lastOp' = "refresh"
    /\ UNCHANGED <<siteVars, loadVars, zone, event, participants, selectedParticipant,
                   gridVars, store, writes, notices>>

\* A loadAvailability response arrives: setAvailability(data || []), then
\* the grid's effect rebuilds userAvailability from the snapshot.
RefreshArrives(data) ==
    /\ data \in refreshes
    /\ refreshes' = refreshes \ {data}
    /\ availability' = data
    /\ userAvailability' =
          IF GridMounted THEN SnapshotMap(data, selectedParticipant) ELSE userAvailability
    /\ renderedAvailability' = userAvailability'
    /\ lastOp' = "refresh"
    /\ UNCHANGED <<siteVars, loadVars, zone, event, participants, selectedParticipant, isDragging,
                   dragStatus, store, writes, notices>>

GridPids == {"p1", "p2"}

\* The form of the index page is gone once the router shows the event page.
Unmounted == [unmounted |-> TRUE]

\* The event page after its event has loaded, with no request under way.
\* Every availability row references a persisted participant.
PageLoaded ==
    /\ route = "event"
    /\ formData = Unmounted
    /\ events = {event}
    /\ loading = FALSE
    /\ people = Pids
    /\ peopleNotices = 0
    /\ peopleRefreshes = {}

\* What the other clients write: this participant from a second tab, and
\* another participant.
RemoteRows == {Row("p1", 0, T0900, "preferred"), Row("p2", 0, T0900, "works")}

Init ==
    /\ zone = NoDst
    /\ event = EventC5
    /\ participants = GridPids
    /\ availability = {}
    /\ selectedParticipant = "p1"
    /\ userAvailability = << >>
    /\ renderedAvailability = << >>
    /\ isDragging = FALSE
    /\ dragStatus = "works"
    /\ store = {}
    /\ writes = {}
    /\ notices = 0
    /\ refreshes = {}
    /\ PageLoaded
    /\ lastOp = "init"

Next ==
    \/ \E k \in GridSlots : handleMouseDown(k[1], k[2])
    \/ \E k \in GridSlots : handleMouseEnter(k[1], k[2])
    \/ handleMouseUp
    \/ Render
    \/ \E w \in writes : WriteArrives(w)
    \/ \E w \in writes : WriteFails(w)
    \/ \E r \in RemoteRows : RemoteWrite(r.participant_id, r.date, r.time, r.status)
    \/ loadAvailability
    \/ \E data \in refreshes : RefreshArrives(data)

Spec == Init /\ [][Next]_vars

---------------------------------------------------------------------------
(* SpecRank: the ranker over every snapshot of a small event *)

MaxRows == 4

RankSetups == {<<NoDst, EventC5>>} \cup {<<z, EventTwoDays>> : z \in Zones}
RankLists  == {{}, {"p1"}, {"p1", "p2"}, {"p1", "p2", "p3"}}

GridIdle ==
    /\ selectedParticipant = "none"
    /\ userAvailability = << >>
    /\ renderedAvailability = << >>
    /\ isDragging = FALSE
    /\ dragStatus = "works"
    /\ writes = {}
    /\ notices = 0
    /\ refreshes = {}

RankInit ==
    /\ \E su \in RankSetups : zone = su[1] /\ event = su[2]
    /\ participants \in RankLists
    /\ availability = {}
    /\ store = {}
    /\ GridIdle
    /\ PageLoaded
    /\ lastOp = "init"

\* The slots a grid showing the event writes to (in a zone without a shift).
EventSlots == SeqRange(Lattice(event, NoDst))

\* A write reaches the table and the refreshed snapshot reaches the page.
RankRow(p, d, t, st) ==
    /\ <<d, t>> \in EventSlots
    /\ Cardinality(Upsert(store, Row(p, d, t, st))) <= MaxRows
    /\ store' = Upsert(store, Row(p, d, t, st))
    /\ availability' = store'
    /\ lastOp' = "row"
    /\ UNCHANGED <<siteVars, loadVars, zone, event, participants, selectedParticipant, gridVars,
                   writes, notices, refreshes>>

RankNext ==
    \E p \in Pids, k \in EventSlots, st \in Statuses : RankRow(p, k[1], k[2], st)

SpecRank == RankInit /\ [][RankNext]_vars

---------------------------------------------------------------------------
(* SpecTop: the ranker over a lattice with more candidates than suggestions *)

EventTop == [start_date |-> 0, end_date |-> 1, start_time |-> T0900, end_time |-> <<10, 30, 0>>]

MaxOtherRows == 1

TopInit ==
    /\ zone \in Zones
    /\ event = EventTop
    /\ participants = {"p1", "p2"}
    /\ availability = {}
    /\ store = {}
    /\ GridIdle
    /\ PageLoaded
    /\ lastOp = "init"

\* p1 fills the grid freely; p2 has written at most MaxOtherRows rows.
TopRow(p, d, t, st) ==
    /\ <<d, t>> \in EventSlots
    /\ Cardinality({a \in Upsert(store, Row(p, d, t, st)) : a.participant_id # "p1"})
          <= MaxOtherRows
    /\ store' = Upsert(store, Row(p, d, t, st))
    /\ availability' = store'
    /\ lastOp' = "row"
    /\ UNCHANGED <<siteVars, loadVars, zone, event, participants, selectedParticipant, gridVars,
                   writes, notices, refreshes>>

TopNext ==
    \E p \in {"p1", "p2"}, k \in EventSlots, st \in {"works", "preferred"} :
        TopRow(p, k[1], k[2], st)

SpecTop == TopInit /\ [][TopNext]_vars

---------------------------------------------------------------------------
(* SpecMono: one vote added at a slot of a working day *)

EventDay == [start_date |-> 0, end_date |-> 0, start_time |-> T0900, end_time |-> <<18, 0, 0>>]

\* The slot voted on, and the rows p1 has painted below it.
MonoSlot == <<0, T0900>>
MonoPainted == {a \in store : a.participant_id = "p1" /\ <<a.date, a.time>> # MonoSlot}

MonoStarts ==
    {rows \in SUBSET {Row(p, 0, T0900, st) : p \in Pids, st \in {"works", "preferred"}} :
        /\ \A a, b \in rows : SameKey(a, b) => a = b
        /\ Row("p1", 0, T0900, "preferred") \notin rows}

MonoInit ==
    /\ zone = NoDst
    /\ event = EventDay
    /\ participants = Pids
    /\ store \in MonoStarts
    /\ availability = store
    /\ GridIdle
    /\ PageLoaded
    /\ lastOp = "init"

\* p1 drags down the column: the next slot gets the status of the gesture.
MonoPaint(st) ==
    LET next == Lattice(event, zone)[Cardinality(MonoPainted) + 2]
    IN  /\ Cardinality(MonoPainted) + 2 <= Len(Lattice(event, zone))
        /\ \A a \in MonoPainted : a.status = st
        /\ store' = Upsert(store, Row("p1", next[1], next[2], st))
        /\ availability' = store'
        /\ lastOp' = "paint"
        /\ UNCHANGED <<siteVars, loadVars, zone, event, participants, selectedParticipant, gridVars,
                       writes, notices, refreshes>>

\* p1 marks the slot as preferred.
MonoVote ==
    /\ Row("p1", MonoSlot[1], MonoSlot[2], "preferred") \notin store
    /\ store' = Upsert(store, Row("p1", MonoSlot[1], MonoSlot[2], "preferred"))
    /\ availability' = store'
    /\ lastOp' = "vote"
    /\ UNCHANGED <<siteVars, loadVars, zone, event, participants, selectedParticipant, gridVars,
                   writes, notices, refreshes>>

MonoNext ==
    \/ \E st \in {"works", "preferred"} : MonoPaint(st)
    \/ MonoVote

SpecMono == MonoInit /\ [][MonoNext]_vars

---------------------------------------------------------------------------
(* Properties of the ranker *)

\* The utility the ranker gives participant p at the slot k = <<date, time>>.
UtilityAt(p, k) == calculateUtilities(participants, availability, k[1], k[2])[p]

SlotKey(s) == <<s.date, s.time>>

\* C3: with an empty participant list the ranker returns the empty list,
\* whatever rows the snapshot holds (works and preferred rows included).
C3_NoParticipantsNoSuggestions ==
    participants = {} => suggestions = <<>>

C3_Witness ==
    /\ participants = {}
    /\ \E a, b \in availability : a.status = "works" /\ b.status = "preferred"
    /\ suggestions = <<>>

\* C4: every suggestion is a slot of the lattice at which some participant has
\* a positive utility (a slot where everybody is unavailable is never
\* emitted), and no (date, time) is suggested twice.
C4_SuggestionsAreDistinctAvailableSlots ==
    LET out == suggestions
    IN  \A i \in DOMAIN out :
            /\ \E p \in participants : UtilityAt(p, SlotKey(out[i])) > 0
            /\ SlotKey(out[i]) \in SeqRange(Lattice(event, zone))
            /\ \A j \in DOMAIN out : SlotKey(out[j]) = SlotKey(out[i]) => j = i

\* C5: one date, 09:00 to 10:00, p1 preferred and p2 works at 09:00, no other
\* row: the only suggestion is 09:00 with socialWelfare 3, availableCount 2,
\* preferredCount 1, worksCount 1, egalitarian 1 and a nashProduct whose
\* square is 2 (to the precision of the fixed point); 09:30 is not returned.
C5_Scenario ==
    /\ event = EventC5
    /\ participants = {"p1", "p2"}
    /\ availability = {Row("p1", 0, T0900, "preferred"), Row("p2", 0, T0900, "works")}

IsSqrt2(r) ==
    LET two == BigMul(Big(2 * SCALE), Big(SCALE))
    IN  /\ BigLeq(BigMul(Big(r), Big(r)), two)
        /\ ~BigLeq(BigMul(Big(r + 1), Big(r + 1)), two)

C5_PreferredAndWorksAtNine ==
    C5_Scenario =>
        LET out == suggestions
        IN  /\ Len(out) = 1
            /\ SlotKey(out[1]) = <<0, T0900>>
            /\ out[1].socialWelfare = 3
            /\ out[1].availableCount = 2
            /\ out[1].preferredCount = 1
            /\ out[1].worksCount = 1
            /\ out[1].egalitarian = 1
            /\ IsSqrt2(out[1].nashProduct)
            /\ \A i \in DOMAIN out : out[i].time # T0930

C5_Witness ==
    /\ C5_Scenario
    /\ <<0, T0930>> \in SeqRange(Lattice(event, zone))
    /\ suggestions # <<>>

\* Date-major, then time, order of two suggestions (not strict).
NotLater(a, b) ==
    \/ a.date < b.date
    \/ a.date = b.date /\ ParseTime(a.time) <= ParseTime(b.time)

NoRepeat(seq) == \A i, j \in DOMAIN seq : seq[i] = seq[j] => i = j

\* C2: at most 5 suggestions are returned, in non-increasing compositeScore;
\* they are the best-scoring candidate slots (no candidate left out scores
\* more than one returned), and among equal scores the slot generated
\* earlier comes first and is kept first; the generation order is date-major,
\* then time, when no date is generated twice.
C2_TopFiveInScoreThenLatticeOrder ==
    LET all == ScoredSlots(event, zone, participants, availability)
        out == suggestions
        \* position j of the generation order ranks before position i
        Before(j, i) ==
            \/ all[j].compositeScore > all[i].compositeScore
            \/ all[j].compositeScore = all[i].compositeScore /\ j < i
    IN  /\ Len(out) <= 5
        /\ Len(out) = Min(5, Len(all))
        /\ \A k \in 1..(Len(out) - 1) :
              /\ out[k].compositeScore >= out[k + 1].compositeScore
              /\ ( /\ out[k].compositeScore = out[k + 1].compositeScore
                    /\ NoRepeat(generateDates(event, zone)) )
                    => NotLater(out[k], out[k + 1])
        /\ \A k \in DOMAIN out :
              \E i \in DOMAIN all :
                  /\ out[k] = all[i]
                  /\ Cardinality({j \in DOMAIN all : Before(j, i)}) = k - 1

C2_Witness ==
    LET all == ScoredSlots(event, zone, participants, availability)
        out == suggestions
    IN  /\ Len(all) = 6
        /\ Len(out) = 5
        /\ out[1].compositeScore > out[2].compositeScore
        /\ out[2].compositeScore = out[3].compositeScore
        /\ \E i \in DOMAIN all : all[i].compositeScore = out[5].compositeScore
                                 /\ SlotKey(all[i]) # SlotKey(out[5])

\* The scored record of the candidate slot k.
ScoredAt(ev, z, parts, avail, k) ==
    LET all == ScoredSlots(ev, z, parts, avail)
    IN  all[CHOOSE i \in DOMAIN all : SlotKey(all[i]) = k]

\* C1: when one listed participant's status at a candidate slot changes to
\* preferred and nothing else changes, the slot's socialWelfare, its
\* normalized nashProduct and its compositeScore (the paretoRank term
\* included) do not decrease.
C1_PreferredVoteNeverLowersTheSlot ==
    [][\A k \in SeqRange(Lattice(event, zone)) : \A p \in participants :
          ( /\ \E q \in participants : UtilityAt(q, k) > 0
            /\ availability' = Upsert(availability, Row(p, k[1], k[2], "preferred"))
            /\ availability' # availability
            /\ UNCHANGED <<siteVars, loadVars, zone, event, participants>> )
          => LET before == ScoredAt(event, zone, participants, availability, k)
                 after  == ScoredAt(event, zone, participants, availability', k)
             IN  /\ after.socialWelfare >= before.socialWelfare
                 /\ after.nashProduct >= before.nashProduct
                 /\ after.compositeScore >= before.compositeScore]_vars

---------------------------------------------------------------------------
(* Properties of the grid and of the table *)

StatusInputs == Statuses \cup {"undefined"}

\* C6: cycleStatus is total on undefined and the three statuses, with
\* unavailable -> works -> preferred -> unavailable and undefined -> works;
\* it has no fixed point, and three applications give back every status.
\* It is stated for every input and for what every cell of the grid holds.
C6_CycleStatusHasPeriodThree ==
    /\ \A s \in StatusInputs : cycleStatus(s) \in Statuses /\ cycleStatus(s) # s
    /\ cycleStatus("unavailable") = "works"
    /\ cycleStatus("works") = "preferred"
    /\ cycleStatus("preferred") = "unavailable"
    /\ cycleStatus("undefined") = "works"
    /\ \A s \in Statuses : cycleStatus(cycleStatus(cycleStatus(s))) = s
    /\ \A k \in GridSlots :
          /\ MapGet(userAvailability, k) \in StatusInputs
          /\ cycleStatus(MapGet(userAvailability, k)) \in Statuses \ {MapGet(userAvailability, k)}

\* Three mouse-downs on a cell that had no entry: works, preferred, unavailable.
C6_Witness ==
    /\ lastOp = "mouseDown"
    /\ dragStatus = "unavailable"
    /\ \E k \in GridSlots : MapGet(userAvailability, k) = "unavailable"

\* C7: a mouse-down on a cell fixes the paint status to the successor of the
\* cell's local status and gives the cell that status; every cell entered
\* before the release gets exactly the paint status; the paint status does
\* not change during the gesture (only a mouse-down changes it), whatever
\* re-renders and refreshes come in between.
C7_DragPaintsTheStatusFixedAtMouseDown ==
    [][ /\ lastOp' = "mouseDown" =>
              \A k \in GridSlots :
                  handleMouseDown(k[1], k[2]) =>
                      /\ dragStatus' = cycleStatus(MapGet(userAvailability, k))
                      /\ MapGet(userAvailability', k) = dragStatus'
        /\ (lastOp' = "mouseEnter" /\ isDragging) =>
              \A k \in GridSlots :
                  handleMouseEnter(k[1], k[2]) =>
                      /\ MapGet(userAvailability', k) = dragStatus
                      /\ dragStatus' = dragStatus
        /\ dragStatus' # dragStatus => lastOp' = "mouseDown" ]_vars

\* C8: before any mouse-down and after a mouse-up no gesture is under way
\* (only a mouse-down starts one), and entering a cell then changes neither
\* the local map nor the table, and issues no write.
C8_EnteringOutsideAGestureChangesNothing ==
    [][ /\ lastOp = "init" => ~isDragging
        /\ lastOp' = "mouseUp" => ~isDragging'
        /\ (isDragging' /\ ~isDragging) => lastOp' = "mouseDown"
        /\ (lastOp' = "mouseEnter" /\ ~isDragging) =>
              UNCHANGED <<userAvailability, renderedAvailability, store, writes>> ]_vars

\* A gesture has taken place (only a mouse-down sets "preferred") and ended.
C8_Witness ==
    /\ lastOp = "mouseEnter"
    /\ ~isDragging
    /\ dragStatus = "preferred"

UniqueRows(rows) == \A a, b \in rows : SameKey(a, b) => a = b

C10_LocalMapIsUpdatedBeforeTheWriteCompletes ==
    [][ /\ lastOp' = "mouseDown" =>
              \A k \in GridSlots :
                  handleMouseDown(k[1], k[2]) =>
                      /\ MapGet(userAvailability', k) = dragStatus'
                      /\ UpsertRequest(selectedParticipant, k[1], k[2], dragStatus') \in writes'
                      /\ store' = store
        /\ (lastOp' = "mouseEnter" /\ isDragging) =>
              \A k \in GridSlots :
                  handleMouseEnter(k[1], k[2]) =>
                      /\ MapGet(userAvailability', k) = dragStatus
                      /\ UpsertRequest(selectedParticipant, k[1], k[2], dragStatus) \in writes'
                      /\ store' = store
        /\ lastOp' \in {"writeInsert", "writeReplace", "writeSame", "writeFails"} =>
              UNCHANGED <<userAvailability, renderedAvailability>>
        /\ userAvailability' # userAvailability =>
              lastOp' \in {"mouseDown", "mouseEnter", "refresh"} ]_vars

\* The write failed and the cell keeps a status the table does not hold.
C10_Witness ==
    /\ lastOp = "writeFails"
    /\ writes = {}
    /\ \E k \in GridSlots :
          /\ MapGet(userAvailability, k) \in Statuses
          /\ \A a \in store : ~(a.participant_id = selectedParticipant
                                /\ getSlotKey(a.date, a.time) = k)

---------------------------------------------------------------------------
(* SpecSite: the index page creates an event, the event page loads it *)

\* The value "" of a date input nothing has been typed into.
EmptyInput == -1

\* The event of a page whose loadEvent has not answered: null.
NullEvent == [null |-> TRUE]

\* What the date and time inputs are set to; a type="time" input holds
\* "HH:MM", here <<hh, mm>>.
DateInputs == {0, 1}
TimeInputs == {<<9, 0>>, <<9, 15>>, <<9, 30>>, <<9, 45>>, <<10, 0>>, <<17, 0>>, <<23, 45>>}

\* useState of Index: the fields of formData the lattice depends on.
FormDefaults == [startDate |-> EmptyInput, endDate |-> EmptyInput, startTime |-> <<9, 0>>, endTime |-> <<17, 0>>]

\* A column of type time gives "HH:MM" back as "HH:MM:SS".
TimeColumn(t) == <<t[1], t[2], 0>>

\* The row insert() is handed, as the table stores it.
EventRow(form) ==
    [start_date |-> form.startDate, end_date |-> form.endDate,
     start_time |-> TimeColumn(form.startTime), end_time |-> TimeColumn(form.endTime)]

\* useState of EventPage, before anything has loaded.
PageUnloaded ==
    /\ event = NullEvent
    /\ participants = {}
    /\ availability = {}
    /\ loading = TRUE

SiteInit ==
    /\ zone \in Zones
    /\ route = "index"
    /\ formData = FormDefaults
    /\ events = {}
    /\ PageUnloaded
    /\ GridIdle
    /\ store = {}
    /\ people = {}
    /\ peopleNotices = 0
    /\ peopleRefreshes = {}
    /\ lastOp = "init"

\* onChange of one of the four inputs.
setFormData(field, value) ==
    /\ route = "index"
    /\ formData' = [formData EXCEPT ![field] = value]
    /\ lastOp' = "setFormData"
    /\ UNCHANGED <<zone, pageVars, gridVars, netVars, route, events, loadVars>>

\* onSubmit of the form; the browser holds it back while a required input
\* is empty.  The insert succeeds and the router goes to the event's page.
handleSubmit ==
    /\ route = "index"
    /\ formData.startDate # EmptyInput /\ formData.endDate # EmptyInput
    /\ events' = events \cup {EventRow(formData)}
    /\ route' = "event"
    /\ formData' = Unmounted
    /\ lastOp' = "submit"
    /\ UNCHANGED <<zone, pageVars, gridVars, netVars, loadVars>>

\* onSubmit of the form, the insert fails: the catch branch, no navigation.
handleSubmitFails ==
    /\ route = "index"
    /\ formData.startDate # EmptyInput /\ formData.endDate # EmptyInput
    /\ lastOp' = "submitFails"
    /\ UNCHANGED <<zone, pageVars, gridVars, netVars, siteVars, loadVars>>

\* loadEvent, after the select has answered with the row: setEvent(data),
\* then loadParticipants() and loadAvailability() of the same render, whose
\* event is still null, so that both return at once.
LoadEventArrives ==
    /\ route = "event"
    /\ loading
    /\ event = NullEvent
    /\ \E data \in events : event' = data
    /\ loading' = FALSE
    /\ lastOp' = "loadEvent"
    /\ UNCHANGED <<zone, participants, availability, selectedParticipant, gridVars,
                   netVars, siteVars, people, peopleNotices, peopleRefreshes>>

\* loadEvent, the select fails: the catch branch.
LoadEventFails ==
    /\ route = "event"
    /\ loading
    /\ event = NullEvent
    /\ loading' = FALSE
    /\ lastOp' = "loadEventFails"
    /\ UNCHANGED <<zone, pageVars, gridVars, netVars, siteVars,
                   people, peopleNotices, peopleRefreshes>>

SiteNext ==
    \/ \E v \in DateInputs : setFormData("startDate", v)
    \/ \E v \in DateInputs : setFormData("endDate", v)
    \/ \E v \in TimeInputs : setFormData("startTime", v)
    \/ \E v \in TimeInputs : setFormData("endTime", v)
    \/ handleSubmit
    \/ handleSubmitFails
    \/ LoadEventArrives
    \/ LoadEventFails

SpecSite == SiteInit /\ [][SiteNext]_vars

\* The event page shows the grids of a loaded event.
EventShown == route = "event" /\ event # NullEvent

\* Minutes from the event's start time to its end time.
MinutesBetween(ev) == (ParseTime(ev.end_time) - ParseTime(ev.start_time)) \div 60

---------------------------------------------------------------------------
(* SpecLoad: the event page opened on an event that already has rows *)

\* The page has its channel once the effect of a render with an event ran.
Subscribed == route = "event" /\ event # NullEvent

\* What the other clients write while the page is open.
LoadRows == {Row("p2", 0, T0900, "works"), Row("p3", 0, T0900, "works")}

LoadInit ==
    /\ zone = NoDst
    /\ route = "event"
    /\ formData = Unmounted
    /\ events = {EventC5}
    /\ PageUnloaded
    /\ GridIdle
    /\ people = {"p1"}
    /\ store = {Row("p1", 0, T0900, "preferred")}
    /\ peopleNotices = 0
    /\ peopleRefreshes = {}
    /\ lastOp = "init"

\* Another client adds a participant; the insert is published to the
\* channel of a page that has one.
RemoteJoin(p) ==
    /\ p \notin people
    /\ peopleNotices < MaxNotices
    /\ people' = people \cup {p}
    /\ peopleNotices' = IF Subscribed THEN peopleNotices + 1 ELSE peopleNotices
    /\ lastOp' = "remoteJoin"
    /\ UNCHANGED <<zone, pageVars, gridVars, netVars, siteVars, loading, peopleRefreshes>>

\* The Join button: the insert succeeds, setSelectedParticipant(data.id).
handleAddParticipant(p) ==
    /\ Subscribed
    /\ ~loading
    /\ selectedParticipant = "none"
    /\ p \notin people
    /\ peopleNotices < MaxNotices
    /\ people' = people \cup {p}
    /\ peopleNotices' = peopleNotices + 1
    /\ selectedParticipant' = p
    /\ lastOp' = "addParticipant"
    /\ UNCHANGED <<zone, event, participants, availability, gridVars, netVars,
                   siteVars, loading, peopleRefreshes>>

\* The upsert of another client's grid reaches the table.
RemoteWriteArrives(w) ==
    /\ w.participant_id \in people
    /\ w \notin store
    /\ notices < MaxNotices
    /\ store' = Upsert(store, w)
    /\ notices' = IF Subscribed THEN notices + 1 ELSE notices
    /\ lastOp' = "remoteWriteArrives"
    /\ UNCHANGED <<zone, pageVars, gridVars, writes, refreshes, siteVars, loadVars>>

\* postgres_changes handler on participants: loadParticipants() selects the
\* event's participants; the response holds the table as it is read.
loadParticipants ==
    /\ Subscribed
    /\ peopleNotices > 0
    /\ Cardinality(peopleRefreshes \cup {people}) <= MaxRefreshes
    /\ peopleNotices' = peopleNotices - 1
    /\ peopleRefreshes' = peopleRefreshes \cup {people}
    /\ lastOp' = "loadParticipants"
    /\ UNCHANGED <<zone, pageVars, gridVars, netVars, siteVars, loading, people>>

\* A loadParticipants response arrives: setParticipants(data || []).
ParticipantsArrive(data) ==
    /\ data \in peopleRefreshes
    /\ peopleRefreshes' = peopleRefreshes \ {data}
    /\ participants' = data
    /\ lastOp' = "participants"
    /\ UNCHANGED <<zone, event, availability, selectedParticipant, gridVars, netVars,
                   siteVars, loading, people, peopleNotices>>

LoadNext ==
    \/ LoadEventArrives
    \/ LoadEventFails
    \/ \E p \in Pids : RemoteJoin(p)
    \/ \E p \in Pids : handleAddParticipant(p)
    \/ \E w \in LoadRows : RemoteWriteArrives(w)
    \/ loadParticipants
    \/ \E data \in peopleRefreshes : ParticipantsArrive(data)
    \/ loadAvailability
    \/ \E data \in refreshes : RefreshArrives(data)

\* Every request of the page is answered and every notification is handled;
\* nothing obliges the other clients or the user to act.
LoadFairness ==
    /\ WF_vars(LoadEventArrives \/ LoadEventFails)
    /\ WF_vars(loadParticipants)
    /\ WF_vars(\E data \in peopleRefreshes : ParticipantsArrive(data))
    /\ WF_vars(loadAvailability)
    /\ WF_vars(\E data \in refreshes : RefreshArrives(data))

SpecLoad == LoadInit /\ [][LoadNext]_vars /\ LoadFairness

---------------------------------------------------------------------------
(* SpecRefresh: clicks of one client with several refreshes under way *)

MaxInFlight == 2

RefreshNext ==
    \/ \E k \in GridSlots : handleMouseDown(k[1], k[2])
    \/ handleMouseUp
    \/ \E w \in writes : WriteArrives(w)
    \/ \E r \in RemoteRows : RemoteWrite(r.participant_id, r.date, r.time, r.status)
    \/ LoadAvailabilityUpTo(MaxInFlight)
    \/ \E data \in refreshes : RefreshArrives(data)

SpecRefresh == Init /\ [][RefreshNext]_vars

---------------------------------------------------------------------------
(* SpecSolo: one client clicks; no other client writes and no request fails *)

SoloNext ==
    \/ \E k \in GridSlots : handleMouseDown(k[1], k[2])
    \/ handleMouseUp
    \/ \E w \in writes : WriteArrives(w)
    \/ LoadAvailabilityUpTo(MaxInFlight)
    \/ \E data \in refreshes : RefreshArrives(data)

SpecSolo == Init /\ [][SoloNext]_vars

---------------------------------------------------------------------------
(* Properties of absence, of the lattice, of the page and of the heatmap *)

\* C11: a row with status unavailable is the same as no row: taking any such
\* row out of the snapshot (or putting it in) changes neither the suggestion
\* list (every field, the order) nor the heatmap class of any slot, and a
\* click on the cell gives works with the row and without it.
C11_UnavailableRowIsAbsence ==
    LET out == suggestions
    IN  \A a \in availability :
            a.status = "unavailable" =>
                LET without == availability \ {a}
                IN  /\ calculateSuggestions(event, zone, participants, without) = out
                    /\ \A k \in SeqRange(Lattice(event, zone)) :
                          HeatmapCell(participants, without, k[1], k[2])
                              = HeatmapCell(participants, availability, k[1], k[2])
                    /\ cycleStatus(MapGet(SnapshotMap(availability, a.participant_id),
                                          getSlotKey(a.date, a.time))) = "works"
                    /\ cycleStatus(MapGet(SnapshotMap(without, a.participant_id),
                                          getSlotKey(a.date, a.time))) = "works"

\* A listed participant is explicitly unavailable at a suggested slot.
C11_Witness ==
    LET out == suggestions
    IN  \E a \in availability :
            /\ a.status = "unavailable"
            /\ a.participant_id \in participants
            /\ \E i \in DOMAIN out : SlotKey(out[i]) = <<a.date, a.time>>
            /\ Cardinality(availability) >= 3

\* C12 as stated: for an event with startTime < endTime the number of time
\* slots is the minutes from start to end divided by 30, remainder dropped.
C12_SlotCountIsTheTruncatedQuotient ==
    (EventShown /\ ParseTime(event.start_time) < ParseTime(event.end_time)) =>
        Len(generateTimeSlots(event)) = MinutesBetween(event) \div SLOT_MINUTES

\* C12 as amended: for an event with startTime < endTime the number of time
\* slots is the minutes from start to end divided by 30 and rounded up; it
\* is the truncated quotient exactly when 30 divides the minutes.
C12_SlotCountIsTheQuotientRoundedUp ==
    (EventShown /\ ParseTime(event.start_time) < ParseTime(event.end_time)) =>
        LET n == Len(generateTimeSlots(event))
            m == MinutesBetween(event)
        IN  /\ n = (m + SLOT_MINUTES - 1) \div SLOT_MINUTES
            /\ (n = m \div SLOT_MINUTES) <=> (m % SLOT_MINUTES = 0)

C12_Witness ==
    /\ EventShown
    /\ ParseTime(event.start_time) < ParseTime(event.end_time)
    /\ MinutesBetween(event) % SLOT_MINUTES # 0
    /\ Len(generateTimeSlots(event)) >= 2

\* C13: generateTimeSlots ends for every pair of times and returns, in
\* strictly increasing order, exactly the times start + 30k minutes that are
\* strictly before the end: none when the end is at or before the start, and
\* never the end time itself.
C13_TimeSlotsWalkTheHalfOpenRange ==
    EventShown =>
        LET ts    == generateTimeSlots(event)
            start == ParseTime(event.start_time)
            end   == ParseTime(event.end_time)
            step  == SLOT_MINUTES * 60
        IN  /\ \A i \in DOMAIN ts :
                  /\ ParseTime(ts[i]) = start + step * (i - 1)
                  /\ ParseTime(ts[i]) < end
                  /\ ts[i] # event.end_time
            /\ \A i \in DOMAIN ts : i > 1 => ParseTime(ts[i - 1]) < ParseTime(ts[i])
            /\ start + step * Len(ts) >= end
            /\ end <= start => ts = <<>>

C13_Witness ==
    /\ EventShown
    /\ Len(generateTimeSlots(event)) >= 2
    /\ MinutesBetween(event) % SLOT_MINUTES = 0

\* C14: for an event with startDate <= endDate, generateDates returns the
\* calendar dates from startDate to endDate inclusive, consecutive, increasing
\* and without repetition: (endDate - startDate) in days + 1 of them, exactly
\* one when the two dates are equal.
C14_DatesAreTheInclusiveRange ==
    (EventShown /\ event.start_date <= event.end_date) =>
        LET dates == generateDates(event, zone)
        IN  /\ Len(dates) = event.end_date - event.start_date + 1
            /\ \A i \in DOMAIN dates : dates[i] = event.start_date + (i - 1)

\* C15: every event that handleSubmit creates has startDate <= endDate and
\* startTime < endTime; a submission that violates either creates no row.
C15_CreatedEventsHaveOrderedBounds ==
    \A e \in events :
        /\ e.start_date <= e.end_date
        /\ ParseTime(e.start_time) < ParseTime(e.end_time)

\* The utility vectors of the listed participants over {0, 1, 2}.
UtilityVectors ==
    [participants -> {UTILITY_WEIGHTS[st] : st \in Statuses}]

\* C16: dominance as isParetoDominated computes it is irreflexive and
\* antisymmetric on the utility vectors over {0, 1, 2} of one length, and
\* calculateParetoRank never counts the slot itself.
C16_DominanceIsIrreflexiveAndAntisymmetric ==
    LET all == AllUtilities(event, zone, participants, availability)
    IN  /\ \A u \in UtilityVectors :
              /\ ~isParetoDominated(u, u)
              /\ \A v \in UtilityVectors :
                    isParetoDominated(u, v) => ~isParetoDominated(v, u)
        /\ \A k \in DOMAIN all :
              calculateParetoRank(all[k], all)
                  = Cardinality({j \in DOMAIN all \ {k} : isParetoDominated(all[k], all[j])})

C16_Witness ==
    LET all == AllUtilities(event, zone, participants, availability)
    IN  /\ Cardinality(participants) >= 2
        /\ \E k, j \in DOMAIN all :
              /\ isParetoDominated(all[k], all[j])
              /\ calculateParetoRank(all[k], all) >= 1
              /\ calculateParetoRank(all[j], all) = 0

\* The six bands, lowest first, by the class the cell is given.
BandOf(class) ==
    CASE class = "bg-muted/50"  -> 0
      [] class = "bg-green-200" -> 1
      [] class = "bg-green-300" -> 2
      [] class = "bg-green-400" -> 3
      [] class = "bg-green-500" -> 4
      [] class = "bg-green-600" -> 5

\* The band of ratio = score / (total * 2) with score = works + 2 * preferred:
\* the lowest for ratio 0 or total 0, then the inclusive upper bounds 0.2, 0.4,
\* 0.6 and 0.8, and the highest above 0.8.
WeightedBand(works, preferred, total) ==
    LET score == works * 1 + preferred * 2
    IN  IF total = 0 \/ score = 0 THEN 0
        ELSE IF 5 * score <= 1 * (total * 2) THEN 1
        ELSE IF 5 * score <= 2 * (total * 2) THEN 2
        ELSE IF 5 * score <= 3 * (total * 2) THEN 3
        ELSE IF 5 * score <= 4 * (total * 2) THEN 4
        ELSE 5

StatusCount(date, time, status) ==
    Cardinality({a \in availability :
                    a.date = date /\ a.time = time /\ a.status = status})

\* C17: the heatmap shows every slot in the band of its weighted ratio
\* (works 1, preferred 2, over twice the number of participants), a ratio on
\* a boundary falling in the lower band.  Stated for the snapshots whose rows
\* are all of listed participants.
C17_HeatmapBandIsTheWeightedRatioBand ==
    (\A a \in availability : a.participant_id \in participants) =>
        \A k \in SeqRange(Lattice(event, zone)) :
            BandOf(HeatmapCell(participants, availability, k[1], k[2]))
                = WeightedBand(StatusCount(k[1], k[2], "works"),
                               StatusCount(k[1], k[2], "preferred"),
                               Cardinality(participants))

\* The page shows what is persisted.
Populated == participants = people /\ availability = store

\* C18: once loadEvent has loaded the event, the participant list and the
\* availability snapshot of the page come to hold the persisted rows, also
\* when no change notification arrives afterwards.
C18_LoadedPageIsEventuallyPopulated ==
    (EventShown /\ lastOp = "loadEvent") ~> Populated

\* C19: the nashProduct of every emitted suggestion is the geometric mean
\* of the positive utilities of its slot: their product to the power 1/n,
\* n the number of positive entries of the utility vector, also when the
\* snapshot holds rows of participants that are not in the participant list.
C19_NashProductIsTheGeometricMean ==
    LET out == suggestions
    IN  \A i \in DOMAIN out :
            LET utilities == calculateUtilities(participants, availability,
                                                out[i].date, out[i].time)
                n         == Cardinality(Positive(utilities))
            IN  out[i].nashProduct = MathPowInv(calculateNashProduct(utilities), n)

\* The listed participants whose row at the slot has the status.
ListedWith(date, time, status) ==
    {p \in participants :
        \E a \in availability : /\ a.participant_id = p /\ a.date = date
                                 /\ a.time = time /\ a.status = status}

\* C20: in every state of the page, for every emitted suggestion worksCount
\* and preferredCount are the numbers of listed participants with that status
\* at the slot, availableCount is the number of positive entries of the
\* utility vector and at most the number of participants, and percentage is
\* above 0 and at most 100.
C20_CountsAreOfListedParticipants ==
    LET out == suggestions
    IN  \A i \in DOMAIN out :
            LET s         == out[i]
                utilities == calculateUtilities(participants, availability, s.date, s.time)
            IN  /\ s.worksCount = Cardinality(ListedWith(s.date, s.time, "works"))
                /\ s.preferredCount = Cardinality(ListedWith(s.date, s.time, "preferred"))
                /\ s.availableCount = s.preferredCount + s.worksCount
                /\ s.availableCount = Cardinality(Positive(utilities))
                /\ s.availableCount <= Cardinality(participants)
                /\ s.percentage > 0
                /\ s.percentage <= 100 * SCALE

---------------------------------------------------------------------------
(* Properties of the Pareto rank, of the score and of the refreshes *)

\* The candidate slots: the slots of the lattice where a listed participant
\* has a positive utility.
Candidates ==
    {k \in SeqRange(Lattice(event, zone)) : \E p \in participants : UtilityAt(p, k) > 0}

\* Slot a is at least as good as slot b for everybody and better for somebody.
Dominates(a, b) ==
    /\ \A p \in participants : UtilityAt(p, a) >= UtilityAt(p, b)
    /\ \E p \in participants : UtilityAt(p, a) > UtilityAt(p, b)

\* C21: the paretoRank of a candidate slot A is the number of other candidate
\* slots B that A dominates (A >= B for every participant, > for one); a slot
\* whose utilities are all zero is never counted.
C21_ParetoRankCountsTheDominatedCandidates ==
    LET scored == ScoredSlots(event, zone, participants, availability)
    IN  /\ {SlotKey(scored[i]) : i \in DOMAIN scored} = Candidates
        /\ \A i \in DOMAIN scored :
              scored[i].paretoRank
                  = Cardinality({b \in Candidates \ {SlotKey(scored[i])} :
                                    Dominates(SlotKey(scored[i]), b)})

C21_Witness ==
    LET scored == ScoredSlots(event, zone, participants, availability)
    IN  /\ \E i, j \in DOMAIN scored :
              scored[i].paretoRank >= 1 /\ scored[j].paretoRank = 0
        /\ SeqRange(Lattice(event, zone)) \ Candidates # {}

\* The record with its utilitarian and percentage fields blanked.
Blind(s) == [s EXCEPT !.utilitarian = 0, !.percentage = 0]

RECURSIVE BlindEach(_)
BlindEach(seq) ==
    IF seq = <<>> THEN <<>>
    ELSE <<WithCompositeScore(Blind(Head(seq)))>> \o BlindEach(Tail(seq))

\* C22: the compositeScore of every emitted suggestion is
\* 0.4 socialWelfare + 0.3 nashProduct 10 + 0.15 egalitarian 5
\* + 0.10 fairnessScore 10 - 0.05 paretoRank, with socialWelfare the sum of
\* the utilities of the slot and egalitarian the least positive one; the
\* utilitarian and percentage fields change neither the score nor the order.
\* (Scores are in units of 1 / (100 * SCALE).)
C22_CompositeScoreIsTheWeightedSum ==
    LET out == suggestions
        all == ScoredSlots(event, zone, participants, availability)
        resorted == SortByScore(BlindEach(all))
    IN  /\ \A i \in DOMAIN out :
              LET k     == SlotKey(out[i])
                  sum   == SumOver([p \in participants |-> UtilityAt(p, k)], participants)
                  least == CHOOSE u \in {UtilityAt(p, k) : p \in participants} :
                              /\ u > 0
                              /\ \A p \in participants :
                                    UtilityAt(p, k) > 0 => u <= UtilityAt(p, k)
              IN  out[i].compositeScore
                      = 40 * sum * SCALE
                        + 30 * out[i].nashProduct * 10
                        + 15 * least * SCALE * 5
                        + 10 * out[i].fairnessScore * 10
                        - 5 * out[i].paretoRank * SCALE
        /\ \A i \in DOMAIN out :
              /\ resorted[i].compositeScore = out[i].compositeScore
              /\ SlotKey(resorted[i]) = SlotKey(out[i])

C22_Witness ==
    LET out == suggestions
    IN  /\ Len(out) >= 2
        /\ out[1].compositeScore > out[2].compositeScore
        /\ out[1].utilitarian # out[2].utilitarian
        /\ out[1].percentage < out[2].percentage
        /\ out[1].paretoRank > 0

\* C23: dominated options are eliminated: no returned suggestion is
\* dominated by another candidate slot of the snapshot, and a suggestion
\* shown with paretoRank 0 ("Optimal") is dominated by no other candidate.
C23_NoSuggestionIsDominated ==
    LET out == suggestions
    IN  \A i \in DOMAIN out :
            /\ \A b \in Candidates \ {SlotKey(out[i])} : ~Dominates(b, SlotKey(out[i]))
            /\ out[i].paretoRank = 0 =>
                  \A b \in Candidates \ {SlotKey(out[i])} : ~Dominates(b, SlotKey(out[i]))

\* C24: when a refresh response arrives, the page's availability is the
\* content of that response and the grid's local map is that content for the
\* selected participant, whatever the order in which the requests were
\* issued and whatever was written locally in between.
C24_LastSnapshotToArriveWins ==
    [][ lastOp' = "refresh" =>
            \E data \in refreshes :
                /\ refreshes' = refreshes \ {data}
                /\ availability' = data
                /\ userAvailability' = SnapshotMap(data, selectedParticipant)
                /\ renderedAvailability' = userAvailability' ]_vars

\* The older of two responses arrived last, over a local write: nothing is
\* under way any more and the page shows less than the table holds.
C24_Witness ==
    /\ lastOp = "refresh"
    /\ refreshes = {} /\ notices = 0 /\ writes = {}
    /\ availability # store
    /\ userAvailability = SnapshotMap(availability, selectedParticipant)
    /\ \E a \in store : a.participant_id = selectedParticipant /\ a \notin availability

\* C25: the lattices the grid, the heatmap and the ranker generate for one
\* event are the same (dates, times, order, keys), whichever browser runs
\* them, so that every slot a grid can write is a slot this page evaluates,
\* and the lattice has numDates * numTimesPerDay slots.
C25_LatticesOfOneEventAreTheSame ==
    LET here == Lattice(event, zone)
    IN  /\ \A z \in Zones : Lattice(event, z) = here
        /\ \A a \in store : <<a.date, a.time>> \in SeqRange(here)
        /\ Cardinality({getSlotKey(k[1], k[2]) : k \in SeqRange(here)})
              = Len(generateDates(event, zone)) * Len(generateTimeSlots(event))

\* C26: a slot update of the selected participant P at (date, time) changes
\* in the local map only the entry of (date, time), every other slot keeping
\* its local status (also the slots updated earlier in the gesture), and in
\* the table only the row keyed (P, date, time).
C26_SlotUpdateChangesOnlyItsSlot ==
    [][ /\ (lastOp' = "mouseDown" \/ (lastOp' = "mouseEnter" /\ isDragging)) =>
              \A k \in GridSlots :
                  (handleMouseDown(k[1], k[2]) \/ handleMouseEnter(k[1], k[2])) =>
                      /\ \A other \in GridSlots \ {k} :
                            MapGet(userAvailability', other) = MapGet(userAvailability, other)
                      /\ \A w \in writes' \ writes :
                            /\ w.participant_id = selectedParticipant
                            /\ <<w.date, w.time>> = k
                      /\ store' = store
        /\ lastOp' \in {"writeInsert", "writeReplace", "writeSame"} =>
              \E w \in writes :
                  /\ \A a \in store : ~SameKey(a, w) => a \in store'
                  /\ \A a \in store' : ~SameKey(a, w) => a \in store ]_vars

\* Nothing is under way: no gesture, no write, no change notification, no
\* refresh request, no pending re-render.
Quiescent ==
    /\ ~isDragging
    /\ writes = {} /\ notices = 0 /\ refreshes = {}
    /\ renderedAvailability = userAvailability

\* The status the table holds for (participant, slot), "undefined" if none.
PersistedStatus(p, k) ==
    IF \E a \in store : a.participant_id = p /\ <<a.date, a.time>> = k
    THEN (CHOOSE a \in store : a.participant_id = p /\ <<a.date, a.time>> = k).status
    ELSE "undefined"

\* C27: for one client editing as P, once nothing is under way the status
\* shown locally for every slot is the status the table holds for (P, slot),
\* whatever the order in which the writes and the refresh responses arrived.
\* (No write is lost or overtaken in SpecSolo, so that the table holds what
\* the user set last.)
C27_LocalMapEqualsTheTableAtQuiescence ==
    Quiescent =>
        \A k \in GridSlots :
            MapGet(userAvailability, k) = PersistedStatus(selectedParticipant, k)

====
